---------------------------- MODULE Spec2Model ----------------------------
(***************************************************************************)
(* A model of the Information-Standards-Checker Automate function:         *)
(*   - Rules/checks.py     the rule predicates and evaluate_parameter      *)
(*   - main.py             automate_function (classification loop, attach) *)
(*   - Utilities/helpers.py  get_type_and_family, create_object_info       *)
(*   - Utilities/flatten.py  flatten_base, extract_base_and_transform      *)
(*   - Utilities/report.py   generate_report                               *)
(*                                                                         *)
(* Python values are modelled with their dynamic type: an attribute may be *)
(* absent (getattr falls back to its default, or raises when it has none), *)
(* None, a string or a number.  Strings that the code inspects character   *)
(* by character (parameter values, the rule prefix) are sequences of       *)
(* characters; an exception is the name of its class where a result is     *)
(* expected.                                                               *)
(***************************************************************************)
EXTENDS Integers, Sequences, FiniteSets, TLC

VARIABLES
    \* ---- evaluate_parameter / automate_function (main.py) ----
    function_inputs,    \* the FunctionInputs of the run
    context,            \* context.current of the traversal context in hand
    current_object,     \* main.py:134, the "parameters" member of context.current
    remaining,          \* parameter keys of current_object not yet visited
    contexts_left,      \* traversal contexts not yet delivered
    parameter,          \* main.py:138
    assessment,         \* main.py:139
    object_info,        \* main.py:154
    assessed_objects,   \* main.py:130
    attached,           \* attach_error_to_objects / attach_info_to_objects calls
    run_status,         \* mark_run_failed / mark_run_success
    stored_file,        \* store_file_result
    pc,                 \* position in the function
    \* ---- flatten.py ----
    graph,              \* the object graph, node number -> node
    call,               \* the arguments of the traversal call
    yielded,            \* what the generator has yielded, in order
    raised,             \* the exception that ended the generator, or NoError
    caller_list,        \* the caller's transform_list object after the call
    parent_type         \* base["parent_type"] of every node (flatten_base)

vars == <<function_inputs, context, current_object, remaining, contexts_left,
          parameter, assessment, object_info, assessed_objects, attached,
          run_status, stored_file, pc,
          graph, call, yielded, raised, caller_list, parent_type>>

evalVars == <<function_inputs, context, current_object, remaining, contexts_left,
              parameter, assessment, object_info, assessed_objects, attached,
              run_status, stored_file, pc>>

graphVars == <<graph, call, yielded, raised, caller_list, parent_type>>

-----------------------------------------------------------------------------
(* Bounds of the model *)

\* longest parameter value / rule prefix enumerated character by character
MaxStrLen == 2
\* traversal contexts delivered to one run of automate_function
MaxContexts == 2
\* parameters of one object
MaxParams == 2
\* nodes of an object graph
MaxNodes == 4

-----------------------------------------------------------------------------
(* Python values *)

\* getattr finds no such attribute
ABSENT == "<absent>"
\* the attribute is there and holds None
PyNone == "<None>"

AttributeError == "AttributeError"
KeyError == "KeyError"
IndexError == "IndexError"
TypeError == "TypeError"
ValueError == "ValueError"
NoError == "<no error>"

\* getattr(obj, name, default) on an attribute whose state is v
GetAttr(v, default) == IF v = ABSENT THEN default ELSE v

\* A value of dynamic type: t is its type, s its characters, n its number.
AbsentValue == [t |-> "absent", s |-> <<>>, n |-> 0]
NoneValue == [t |-> "none", s |-> <<>>, n |-> 0]
StrValue(s) == [t |-> "str", s |-> s, n |-> 0]
NumValue(n) == [t |-> "num", s |-> <<>>, n |-> n]

\* bool(v) of a value that is there
Truthy(v) ==
    CASE v.t = "none" -> FALSE
      [] v.t = "str" -> v.s # <<>>
      [] v.t = "num" -> v.n # 0

\* str.startswith
startswith(s, prefix) ==
    /\ Len(prefix) <= Len(s)
    /\ SubSeq(s, 1, Len(prefix)) = prefix

-----------------------------------------------------------------------------
(* Rules/checks.py *)

RevitParameterType == "Objects.BuiltElements.Revit.Parameter"
RevitInstanceType == "Objects.Other.Revit.RevitInstance"

\* checks.py:111 is_revit_parameter
is_revit_parameter(p) == GetAttr(p.speckle_type, PyNone) = RevitParameterType

\* checks.py:47 has_missing_value: "True", "False", or the exception raised
\* by getattr(parameter, "value"), which has no default
has_missing_value(p) ==
    IF p.value.t = "absent" THEN AttributeError
    ELSE IF Truthy(p.value) THEN "False" ELSE "True"

\* checks.py:123 evaluate_parameter: None, "missing", "valid", "invalid", or
\* the exception raised
evaluate_parameter(p, inputs) ==
    IF ~is_revit_parameter(p) THEN PyNone
    ELSE IF has_missing_value(p) = AttributeError THEN AttributeError
    ELSE IF has_missing_value(p) = "True" THEN "missing"
    ELSE \* value is truthy here; only a str has startswith
         IF p.value.t # "str" THEN AttributeError
         ELSE IF startswith(p.value.s, inputs.single_rule) THEN "valid"
         ELSE "invalid"

\* ---- the rule predicates ----
\* A predicate is applied to a node [speckle_type, name, value, category,
\* parameters]: speckle_type and category are ABSENT, PyNone or a string,
\* name and value are values of dynamic type, parameters is absent, None or
\* the set of the keys of a mapping.  The predicates that use getattr read
\* the fields as attributes of a Base; has_default_value and parameter_exists
\* call .get and read them as the keys of a dict.  The result is "True",
\* "False", or the exception raised.

PyBool(b) == IF b THEN "True" ELSE "False"

\* checks.py:22 speckle_type_rule(desired_type)(parameter)
speckle_type_rule(desired_type, p) ==
    PyBool(GetAttr(p.speckle_type, PyNone) = desired_type)

\* checks.py:30 forbidden_prefix_rule(given_prefix)(parameter):
\* parameter.name.startswith(given_prefix); only a str has startswith
forbidden_prefix_rule(given_prefix, p) ==
    IF p.name.t # "str" THEN AttributeError
    ELSE PyBool(startswith(p.name.s, given_prefix))

\* "Default", the value has_default_value looks for
DefaultValue == <<"D", "e", "f", "a", "u", "l", "t">>

\* checks.py:58 has_default_value: parameter.get("value") == "Default"
has_default_value(p) == PyBool(p.value.t = "str" /\ p.value.s = DefaultValue)

\* checks.py:69 parameter_exists:
\* parameter_name in parent_object.get("parameters", {})
parameter_exists(parameter_name, parent_object) ==
    IF parent_object.parameters.t = "absent" THEN "False"
    ELSE IF parent_object.parameters.t = "none" THEN TypeError
    ELSE PyBool(parameter_name \in parent_object.parameters.keys)

\* checks.py:80 is_category(category)(parameter)
is_category(category, p) == PyBool(GetAttr(p.category, PyNone) = category)

\* checks.py:89 parameter_name_is(parameter_name)(parameter):
\* getattr(parameter, "name") is not None and parameter.name == parameter_name
parameter_name_is(parameter_name, p) ==
    IF p.name.t = "absent" THEN AttributeError
    ELSE PyBool(p.name.t = "str" /\ p.name.s = parameter_name)

\* checks.py:101 parameter_value_startswith(prefix)(parameter):
\* parameter.name.startswith(prefix)
parameter_value_startswith(prefix, p) ==
    IF p.name.t # "str" THEN AttributeError
    ELSE PyBool(startswith(p.name.s, prefix))

\* the predicate rule.fn, configured with rule.arg, applied to node p
apply_rule(rule, p) ==
    CASE rule.fn = "speckle_type_rule" -> speckle_type_rule(rule.arg, p)
      [] rule.fn = "forbidden_prefix_rule" -> forbidden_prefix_rule(rule.arg, p)
      [] rule.fn = "has_missing_value" -> has_missing_value(p)
      [] rule.fn = "has_default_value" -> has_default_value(p)
      [] rule.fn = "parameter_exists" -> parameter_exists(rule.arg, p)
      [] rule.fn = "is_category" -> is_category(rule.arg, p)
      [] rule.fn = "parameter_name_is" -> parameter_name_is(rule.arg, p)
      [] rule.fn = "parameter_value_startswith" -> parameter_value_startswith(rule.arg, p)
      [] rule.fn = "is_revit_parameter" -> PyBool(is_revit_parameter(p))


-----------------------------------------------------------------------------
(* Utilities/helpers.py *)

\* helpers.py:5 get_type_and_family
get_type_and_family(obj) ==
    IF GetAttr(obj.speckle_type, PyNone) = RevitInstanceType /\ obj.definition.present
    THEN <<GetAttr(obj.definition.type, "Unknown"),
           GetAttr(obj.definition.family, "Unknown")>>
    ELSE <<GetAttr(obj.type, "Unknown"), GetAttr(obj.family, "Unknown")>>

\* helpers.py:13 create_object_info
create_object_info(obj, type_, family) ==
    [name |-> GetAttr(obj.name, "Unknown"),
     type |-> type_,
     family |-> family,
     id |-> GetAttr(obj.id, "Unknown")]

-----------------------------------------------------------------------------
(* Utilities/report.py *)

\* str.lower on the names of the Format enum (main.py:30)
lower(fmt) ==
    CASE fmt = "PDF" -> "pdf"
      [] fmt = "HTML" -> "html"
      [] fmt = "JSON" -> "json"
      [] OTHER -> fmt

\* report.py:118 generate_report: the file name, or the exception raised
generate_report(data, report_format) ==
    IF report_format \in {"HTML", "JSON", "PDF"}
    THEN <<"report", lower(report_format)>>
    ELSE <<ValueError>>

-----------------------------------------------------------------------------
(* main.py automate_function *)

\* main.py:130
EmptyBuckets == [missing |-> <<>>, invalid |-> <<>>, passing |-> <<>>]

\* the iteration order of assessed_objects.items() (insertion order)
BucketOrder == <<"missing", "invalid", "passing">>

\* main.py:143 to 159, the object_info built from current_object
object_info_of(obj) ==
    LET type_ == IF GetAttr(obj.speckle_type, PyNone) = RevitInstanceType
                    /\ obj.definition.present
                 THEN GetAttr(obj.definition.type, "Unknown")
                 ELSE GetAttr(obj.type, "Unknown")
        family == IF GetAttr(obj.speckle_type, PyNone) = RevitInstanceType
                     /\ obj.definition.present
                  THEN GetAttr(obj.definition.family, "Unknown")
                  ELSE GetAttr(obj.family, "Unknown")
    IN [name |-> GetAttr(obj.name, "Unknown"),
        type |-> type_,
        family |-> family,
        id |-> GetAttr(obj.id, "Unknown")]

\* bool(obj["id"]) of main.py:166 and 174
Identified(obj) == obj.id # PyNone /\ obj.id # ""

RECURSIVE SelectIdentified(_)
SelectIdentified(objects) ==
    IF objects = <<>> THEN <<>>
    ELSE (IF Identified(Head(objects)) THEN <<Head(objects)>> ELSE <<>>)
         \o SelectIdentified(Tail(objects))

\* str.capitalize on the bucket names
capitalize(state) ==
    CASE state = "missing" -> "Missing"
      [] state = "invalid" -> "Invalid"
      [] state = "passing" -> "Passing"
      [] OTHER -> state

\* main.py:165 to 190, one turn of the attach loop: the call made for bucket
\* state, or none
attach_call(state, objects) ==
    LET identified == SelectIdentified(objects)
        ids == [i \in 1..Len(identified) |-> identified[i].id]
        detailed_messages ==
            [i \in 1..Len(identified) |->
                [name |-> identified[i].name, type |-> identified[i].type,
                 id |-> identified[i].id]]
    IN IF ids = <<>> THEN <<>>
       ELSE <<[level |-> IF state \in {"missing", "invalid"} THEN "error" ELSE "info",
               category |-> capitalize(state),
               object_ids |-> ids,
               message |-> [count |-> Len(objects), state |-> state,
                            details |-> detailed_messages]]>>

\* main.py:165 to 190, the whole attach loop
attach_calls(buckets) ==
    attach_call(BucketOrder[1], buckets[BucketOrder[1]])
    \o attach_call(BucketOrder[2], buckets[BucketOrder[2]])
    \o attach_call(BucketOrder[3], buckets[BucketOrder[3]])

NotEvaluated == "<not evaluated>"
NoObject ==
    [speckle_type |-> ABSENT, definition |-> [present |-> FALSE, type |-> ABSENT, family |-> ABSENT],
     type |-> ABSENT, family |-> ABSENT, name |-> ABSENT, id |-> ABSENT, category |-> ABSENT]
NoContext == [object |-> NoObject, has_parameters |-> FALSE, parameters |-> NoObject, keys |-> 0]
NoParameter == [speckle_type |-> ABSENT, name |-> ABSENT, value |-> AbsentValue]
NoInfo == [name |-> ABSENT, type |-> ABSENT, family |-> ABSENT, id |-> ABSENT]

\* main.py:133 to 136: the traversal delivers the next context c; an object
\* without parameters (or with none in it) is passed over
NextContext(c) ==
    /\ pc = "traverse"
    /\ contexts_left > 0
    /\ contexts_left' = contexts_left - 1
    /\ context' = c
    /\ current_object' = IF c.has_parameters THEN c.parameters ELSE NoObject
    /\ remaining' = IF c.has_parameters THEN c.keys ELSE 0
    /\ pc' = IF c.has_parameters /\ c.keys > 0 THEN "parameters" ELSE "traverse"
    /\ UNCHANGED <<function_inputs, parameter, assessment, object_info,
                   assessed_objects, attached, run_status, stored_file>>
    /\ UNCHANGED graphVars

\* main.py:137 to 162: one turn of the loop over the parameter keys, on the
\* parameter p found under the next key
EvaluateNext(p) ==
    /\ pc = "parameters"
    /\ remaining > 0
    /\ parameter' = p
    /\ LET a == evaluate_parameter(p, function_inputs)
           info == object_info_of(current_object)
       IN IF a = AttributeError
          THEN \* evaluate_parameter raised: the function ends here
               /\ pc' = "raised"
               /\ UNCHANGED <<assessment, object_info, assessed_objects, remaining>>
          ELSE /\ assessment' = a
               /\ object_info' = info
               /\ IF a = PyNone
                  THEN /\ assessed_objects' = assessed_objects
                       /\ remaining' = remaining - 1
                       /\ pc' = IF remaining = 1 THEN "traverse" ELSE "parameters"
                  ELSE IF a \in DOMAIN assessed_objects
                  THEN /\ assessed_objects' =
                            [assessed_objects EXCEPT ![a] = Append(@, info)]
                       /\ remaining' = remaining - 1
                       /\ pc' = IF remaining = 1 THEN "traverse" ELSE "parameters"
                  ELSE \* assessed_objects[assessment] raises KeyError
                       /\ pc' = "raised"
                       /\ UNCHANGED <<assessed_objects, remaining>>
    /\ UNCHANGED <<function_inputs, context, current_object, contexts_left,
                   attached, run_status, stored_file>>
    /\ UNCHANGED graphVars

\* main.py:164 to 209: the traversal is exhausted; attach, mark the run,
\* generate and store the report
AttachAndReport ==
    /\ pc = "traverse"
    /\ attached' = attach_calls(assessed_objects)
    /\ run_status' = IF assessed_objects["missing"] # <<>> \/ assessed_objects["invalid"] # <<>>
                     THEN "failed" ELSE "success"
    /\ LET report_file == generate_report(assessed_objects, function_inputs.report_format)
       IN IF report_file = <<ValueError>>
          THEN pc' = "raised" /\ UNCHANGED stored_file
          ELSE pc' = "done" /\ stored_file' = report_file
    /\ UNCHANGED <<function_inputs, context, current_object, remaining, contexts_left,
                   parameter, assessment, object_info, assessed_objects>>
    /\ UNCHANGED graphVars

-----------------------------------------------------------------------------
(* The object graph of Utilities/flatten.py *)

(***************************************************************************)
(* graph is a sequence of nodes; a node refers to other nodes by their     *)
(* position.  A node is a Base or an Instance (a Base too).  elements and  *)
(* "@elements" are absent or a list; every other "@"-prefixed dynamic     *)
(* member is absent, None, a list, or a Base.                              *)
(***************************************************************************)

NoList == [present |-> FALSE, items |-> <<>>]
ListOf(items) == [present |-> TRUE, items |-> items]

MemberAbsent == [kind |-> "absent", items |-> <<>>]
MemberNone == [kind |-> "none", items |-> <<>>]
MemberList(items) == [kind |-> "list", items |-> items]
MemberBase(c) == [kind |-> "base", items |-> <<c>>]

\* the "@"-prefixed dynamic members a node may carry besides "@elements"
MemberNames == {"@Lines", "@Walls"}

\* the "@"-prefixed names of a node as dir() lists them: sorted
SigilNames == <<"@Lines", "@Walls", "@elements">>

NoMembers == [m \in MemberNames |-> MemberAbsent]

\* getattr(base, name) for an "@"-prefixed name
MemberValue(node, name) ==
    IF name = "@elements"
    THEN IF node.at_elements.present THEN MemberList(node.at_elements.items)
         ELSE MemberAbsent
    ELSE node.members[name]

Unset == "<unset>"

\* ---- flatten_base ----

\* The state of a run of the generator: what it has yielded, the exception
\* travelling up (NoError when none), and base["parent_type"] of every node.

RECURSIVE flatten_base(_, _, _, _)
RECURSIVE flatten_elements(_, _, _, _, _)
RECURSIVE flatten_categories(_, _, _, _)

\* flatten.py:14 flatten_base(base, parent_type)
flatten_base(g, base, parent, st) ==
    LET node == g[base]
        st1 == [st EXCEPT !.parent_type[base] = parent]
    IN IF node.elements.present /\ node.elements.items # <<>>
       THEN LET r == flatten_elements(g, node.elements.items, 1, node.speckle_type, st1)
            IN \* except KeyError: pass
               IF r.err = KeyError THEN [r EXCEPT !.err = NoError] ELSE r
       ELSE IF MemberValue(node, "@Lines").kind # "absent"
       THEN flatten_categories(g, base, 1, st1)
       ELSE [st1 EXCEPT !.out = Append(@, base)]

\* flatten.py:31 the loop over base.elements, from its k-th turn on
flatten_elements(g, items, k, ptype, st) ==
    IF k > Len(items) \/ st.err # NoError THEN st
    ELSE flatten_elements(g, items, k + 1, ptype, flatten_base(g, items[k], ptype, st))

\* flatten.py:37 the loop over the dynamic member names, from its k-th turn on
flatten_categories(g, base, k, st) ==
    IF k > Len(SigilNames) \/ st.err # NoError THEN st
    ELSE LET v == MemberValue(g[base], SigilNames[k])
         IN IF v.kind = "absent" THEN flatten_categories(g, base, k + 1, st)
            \* getattr(base, category)[0]
            ELSE IF v.kind = "none" THEN [st EXCEPT !.err = TypeError]
            ELSE IF v.kind = "base" THEN [st EXCEPT !.err = KeyError]
            ELSE IF v.items = <<>> THEN [st EXCEPT !.err = IndexError]
            ELSE flatten_categories(g, base, k + 1,
                    flatten_base(g, v.items[1], g[v.items[1]].speckle_type, st))

\* ---- extract_base_and_transform ----

\* with_transform with the transform put first instead of last
with_transform_prepended(transform_list, node) ==
    IF node.transform # PyNone THEN <<node.transform>> \o transform_list
    ELSE transform_list

\* flatten.py:66 the Instance's transform, when it has one, is appended
with_transform(transform_list, node) ==
    IF node.transform # PyNone THEN Append(transform_list, node.transform)
    ELSE transform_list

\* elements_attr taking "@elements" too when elements is not empty
elements_attr_both(node) ==
    (IF node.elements.present THEN node.elements.items ELSE <<>>)
    \o (IF node.at_elements.present THEN node.at_elements.items ELSE <<>>)

\* flatten.py:76 getattr(base, "elements", []) or getattr(base, "@elements", [])
elements_attr(node) ==
    IF node.elements.present /\ node.elements.items # <<>> THEN node.elements.items
    ELSE IF node.at_elements.present THEN node.at_elements.items
    ELSE <<>>

\* flatten.py:87 isinstance(attr_value, Base) and hasattr(attr_value, "elements")
is_container_member(g, v) == v.kind = "base" /\ g[v.items[1]].elements.present

\* flatten.py:62 getattr(base, "id", inherited_instance_id)
current_id_of(node, inherited_instance_id) == GetAttr(node.id, inherited_instance_id)

RECURSIVE extract_base_and_transform(_, _, _, _)
RECURSIVE extract_elements(_, _, _, _, _)
RECURSIVE extract_members(_, _, _, _, _)

\* flatten.py:46 extract_base_and_transform: the tuples yielded, in order.
\* transform_list is the list in hand after "transform_list or []".
extract_base_and_transform(g, base, inherited_instance_id, transform_list) ==
    LET node == g[base]
        current_id == current_id_of(node, inherited_instance_id)
    IN IF node.instance
       THEN IF node.definition # 0
            THEN extract_base_and_transform(g, node.definition, current_id,
                                            with_transform(transform_list, node))
            ELSE <<>>
       ELSE <<[node |-> base, id |-> current_id, transforms |-> transform_list]>>
            \o extract_elements(g, elements_attr(node), 1, current_id, transform_list)
            \o extract_members(g, base, 1, current_id, transform_list)

\* flatten.py:77 the loop over elements_attr, from its k-th turn on
extract_elements(g, items, k, current_id, transform_list) ==
    IF k > Len(items) THEN <<>>
    ELSE extract_base_and_transform(g, items[k], current_id, transform_list)
         \o extract_elements(g, items, k + 1, current_id, transform_list)

\* flatten.py:84 the loop over dir(base), from its k-th "@"-prefixed name on
extract_members(g, base, k, current_id, transform_list) ==
    IF k > Len(SigilNames) THEN <<>>
    ELSE (IF is_container_member(g, MemberValue(g[base], SigilNames[k]))
          THEN extract_base_and_transform(g, MemberValue(g[base], SigilNames[k]).items[1],
                                          current_id, transform_list)
          ELSE <<>>)
         \o extract_members(g, base, k + 1, current_id, transform_list)

\* flatten.py:63 to 67: the list object the caller passed, after the call.
\* "transform_list or []" keeps the caller's object when it is not empty, and
\* an Instance then appends its transform to that very object.
caller_list_after(g, c) ==
    IF c.has_list /\ c.transform_list # <<>> /\ g[c.root].instance
    THEN with_transform(c.transform_list, g[c.root])
    ELSE c.transform_list

-----------------------------------------------------------------------------
(* Inputs of the evaluation *)

\* the characters parameter values and rule prefixes are made of
Chars == {"2", "9"}

\* every string of at most n characters
RECURSIVE StringsUpTo(_)
StringsUpTo(n) ==
    IF n = 0 THEN {<<>>}
    ELSE LET shorter == StringsUpTo(n - 1)
         IN shorter \cup {Append(s, c) : s \in {t \in shorter : Len(t) = n - 1}, c \in Chars}

\* "23.30.20", the default of single_rule (main.py:87), and the values
\* "23.30.20.11" and "99.00.00"
DefaultRule == <<"2", "3", ".", "3", "0", ".", "2", "0">>
OmniClassValue == DefaultRule \o <<".", "1", "1">>
OtherValue == <<"9", "9", ".", "0", "0", ".", "0", "0">>

Values ==
    {AbsentValue, NoneValue, NumValue(0), NumValue(5)}
    \cup {StrValue(s) : s \in StringsUpTo(MaxStrLen) \cup {OmniClassValue, OtherValue}}

Rules == StringsUpTo(MaxStrLen) \cup {DefaultRule}

SpeckleTypes == {RevitParameterType, "Base", ABSENT}

Parameters ==
    [speckle_type : SpeckleTypes, name : {"OmniClass Number"}, value : Values]

\* the inputs of one call of evaluate_parameter
ClassifyInputs ==
    [single_category : {"Windows"}, single_property : {"OmniClass Number"},
     single_rule : Rules, report_format : {"PDF"}]

\* ---- automate_function ----

Definition(t, f) == [present |-> TRUE, type |-> t, family |-> f]
NoDefinition == [present |-> FALSE, type |-> ABSENT, family |-> ABSENT]

\* the objects the traversal delivers: typed, untyped, and a RevitInstance
\* whose type and family are its definition's
Objects ==
    {[speckle_type |-> st, definition |-> d, type |-> t, family |-> t,
      name |-> "Window", id |-> "c1", category |-> c] :
        st \in {"Objects.BuiltElements.Revit.RevitElement"}, d \in {NoDefinition},
        t \in {"T1", ABSENT}, c \in {"Windows", "Doors"}}
    \cup
    {[speckle_type |-> RevitInstanceType, definition |-> Definition("DT", "DF"),
      type |-> ABSENT, family |-> ABSENT,
      name |-> "Window", id |-> "c1", category |-> c] : c \in {"Windows", "Doors"}}

\* the Base under "parameters": a Base always has an id attribute, None
\* unless set; it has no name, type, family or category of its own
ParameterHolders ==
    {[speckle_type |-> "Base", definition |-> NoDefinition, type |-> ABSENT,
      family |-> ABSENT, name |-> ABSENT, id |-> i, category |-> ABSENT] :
        i \in {PyNone, "p1"}}

Contexts ==
    {[object |-> o, has_parameters |-> TRUE, parameters |-> h, keys |-> k] :
        o \in Objects, h \in ParameterHolders, k \in 0..MaxParams}
    \cup {[object |-> o, has_parameters |-> FALSE, parameters |-> NoObject, keys |-> 0] :
        o \in Objects}

AutomateParameters ==
    [speckle_type : {RevitParameterType, "Base"},
     name : {"OmniClass Number", "Mark"},
     value : {NoneValue, NumValue(5), StrValue(OmniClassValue), StrValue(OtherValue)}]

AutomateInputs ==
    [single_category : {"Windows", "Doors"}, single_property : {"OmniClass Number", "Mark"},
     single_rule : {DefaultRule}, report_format : {"PDF", "HTML", "JSON"}]

-----------------------------------------------------------------------------
(* Specifications *)

NoCall == [fn |-> "none", root |-> 0, inherited_instance_id |-> PyNone,
           transform_list |-> <<>>, has_list |-> FALSE]

GraphIdle ==
    /\ graph = <<>>
    /\ call = NoCall
    /\ yielded = <<>>
    /\ raised = NoError
    /\ caller_list = <<>>
    /\ parent_type = <<>>

EvalIdle ==
    /\ context = NoContext
    /\ current_object = NoObject
    /\ remaining = 0
    /\ contexts_left = 0
    /\ parameter = NoParameter
    /\ assessment = NotEvaluated
    /\ object_info = NoInfo
    /\ assessed_objects = EmptyBuckets
    /\ attached = <<>>
    /\ run_status = "running"
    /\ stored_file = <<>>

\* the FunctionInputs of a call that reads none
NoInputs == [single_category |-> "", single_property |-> "", single_rule |-> <<>>,
             report_format |-> ""]

\* ---- evaluate_parameter called on its own ----

InitClassify ==
    /\ function_inputs \in ClassifyInputs
    /\ EvalIdle
    /\ pc = "call"
    /\ GraphIdle

\* one call of evaluate_parameter(p, function_inputs)
EvaluateParameter(p) ==
    /\ pc \in {"call", "returned", "raised"}
    /\ parameter' = p
    /\ assessment' = evaluate_parameter(p, function_inputs)
    /\ pc' = IF evaluate_parameter(p, function_inputs) = AttributeError
             THEN "raised" ELSE "returned"
    /\ UNCHANGED <<function_inputs, context, current_object, remaining, contexts_left,
                   object_info, assessed_objects, attached, run_status, stored_file>>
    /\ UNCHANGED graphVars

NextClassify == \E p \in Parameters : EvaluateParameter(p)

SpecClassify == InitClassify /\ [][NextClassify]_vars

\* ---- the rule predicates called on their own ----

NoMapping == [t |-> "absent", keys |-> {}]
NoneMapping == [t |-> "none", keys |-> {}]
Mapping(keys) == [t |-> "dict", keys |-> keys]

\* the nodes a predicate is applied to: every inspected attribute absent,
\* None, or set
RuleNodes ==
    [speckle_type : SpeckleTypes \cup {PyNone},
     name : {AbsentValue, NoneValue} \cup {StrValue(n) : n \in StringsUpTo(1)},
     value : {AbsentValue, NoneValue, NumValue(5), StrValue(<<>>), StrValue(DefaultValue)},
     category : {ABSENT, PyNone, "Windows"},
     parameters : {NoMapping, NoneMapping, Mapping({}), Mapping({<<"2">>})}]

\* the predicates and the configuration value each is built with
RuleCalls ==
    {[fn |-> "speckle_type_rule", arg |-> RevitParameterType],
     [fn |-> "is_category", arg |-> "Windows"],
     [fn |-> "has_missing_value", arg |-> PyNone],
     [fn |-> "has_default_value", arg |-> PyNone],
     [fn |-> "is_revit_parameter", arg |-> PyNone]}
    \cup [fn : {"forbidden_prefix_rule", "parameter_value_startswith",
                "parameter_name_is", "parameter_exists"},
          arg : StringsUpTo(1)]

InitRules ==
    /\ function_inputs = NoInputs
    /\ context = NoContext
    /\ current_object = NoObject
    /\ remaining = 0
    /\ contexts_left = 0
    /\ parameter \in RuleNodes
    /\ assessment = NotEvaluated
    /\ object_info = NoInfo
    /\ assessed_objects = EmptyBuckets
    /\ attached = <<>>
    /\ run_status = "running"
    /\ stored_file = <<>>
    /\ pc = "call"
    /\ GraphIdle

\* one call of a predicate on the node in hand
ApplyRule(rule) ==
    /\ pc \in {"call", "returned", "raised"}
    /\ call' = rule
    /\ assessment' = apply_rule(rule, parameter)
    /\ pc' = IF apply_rule(rule, parameter) \in {"True", "False"}
             THEN "returned" ELSE "raised"
    /\ UNCHANGED <<function_inputs, context, current_object, remaining, contexts_left,
                   parameter, object_info, assessed_objects, attached, run_status,
                   stored_file>>
    /\ UNCHANGED <<graph, yielded, raised, caller_list, parent_type>>

NextRules == \E rule \in RuleCalls : ApplyRule(rule)

SpecRules == InitRules /\ [][NextRules]_vars

\* ---- automate_function ----

InitAutomate ==
    /\ function_inputs \in AutomateInputs
    /\ context = NoContext
    /\ current_object = NoObject
    /\ remaining = 0
    /\ contexts_left = MaxContexts
    /\ parameter = NoParameter
    /\ assessment = NotEvaluated
    /\ object_info = NoInfo
    /\ assessed_objects = EmptyBuckets
    /\ attached = <<>>
    /\ run_status = "running"
    /\ stored_file = <<>>
    /\ pc = "traverse"
    /\ GraphIdle

NextAutomate ==
    \/ \E c \in Contexts : NextContext(c)
    \/ \E p \in AutomateParameters : EvaluateNext(p)
    \/ AttachAndReport

SpecAutomate == InitAutomate /\ [][NextAutomate]_vars

-----------------------------------------------------------------------------
(* Object graphs and traversal calls *)

(***************************************************************************)
(* The graph is received node by node, children before their parents, so   *)
(* that it is acyclic; the node received last is the root of the call.     *)
(* Node k has speckle_type "Type<k>"; when it has an id of its own it is   *)
(* "id<k>", and when it has a transform it is "T<k>".                      *)
(***************************************************************************)

RECURSIVE Ascending(_)
Ascending(S) ==
    IF S = {} THEN <<>>
    ELSE LET m == CHOOSE x \in S : \A y \in S : x <= y
         IN <<m>> \o Ascending(S \ {m})

\* the lists of nodes of S, in the order received
ListsOver(S) == {Ascending(T) : T \in SUBSET S}

TypeName(k) == "Type" \o ToString(k)
IdName(k) == "id" \o ToString(k)
TransformName(k) == "T" \o ToString(k)

BaseNode(k, id, elements, at_elements, members) ==
    [instance |-> FALSE, id |-> id, speckle_type |-> TypeName(k),
     transform |-> PyNone, definition |-> 0,
     elements |-> elements, at_elements |-> at_elements, members |-> members]

InstanceNode(k, id, transform, definition) ==
    [instance |-> TRUE, id |-> id, speckle_type |-> TypeName(k),
     transform |-> transform, definition |-> definition,
     elements |-> NoList, at_elements |-> NoList, members |-> NoMembers]

Walls(v) == [m \in MemberNames |-> IF m = "@Walls" THEN v ELSE MemberAbsent]
LinesAndWalls(l, w) == [m \in MemberNames |-> IF m = "@Lines" THEN l ELSE w]

\* the lists of no, one or two nodes of S, in the order received
ChildLists(S) ==
    {<<>>} \cup {<<c>> : c \in S} \cup {<<p[1], p[2]>> : p \in {q \in S \X S : q[1] < q[2]}}

\* the nodes that may come next, for the calls of extract_base_and_transform
\* that look at paths and transforms: Instances with and without transform
\* over a definition, an Instance without definition, Bases with elements,
\* with "@elements" instead of elements, beside an empty elements and beside
\* elements that hold the previous node, and with a Base under "@Walls"
ExtractNodes(g) ==
    LET k == Len(g) + 1
        older == 1..Len(g)
    IN {InstanceNode(k, PyNone, t, d) : t \in {PyNone, TransformName(k)}, d \in older}
       \cup {InstanceNode(k, PyNone, TransformName(k), 0)}
       \cup {BaseNode(k, PyNone, e, NoList, NoMembers) :
                e \in {NoList} \cup {ListOf(l) : l \in ChildLists(older)}}
       \cup {BaseNode(k, PyNone, e, ListOf(<<c>>), NoMembers) :
                e \in {NoList, ListOf(<<Len(g)>>)}, c \in older}
       \cup {BaseNode(k, PyNone, ListOf(<<>>), ListOf(<<c>>), NoMembers) :
                c \in older \cap {Len(g)}}
       \cup {BaseNode(k, PyNone, NoList, NoList, Walls(MemberBase(c))) : c \in older}

\* the nodes that may come next, for the calls that look at the inherited
\* id: every node without id attribute, with id None, or with its own id
IdentityNodes(g) ==
    LET k == Len(g) + 1
        older == 1..Len(g)
    IN {InstanceNode(k, i, TransformName(k), d) :
            i \in {ABSENT, PyNone, IdName(k)}, d \in {0} \cup older}
       \cup {BaseNode(k, i, e, NoList, NoMembers) :
                i \in {ABSENT, PyNone, IdName(k)},
                e \in {NoList} \cup {ListOf(<<c>>) : c \in older}}

\* the nodes that may come next, for the calls of flatten_base: Bases with
\* elements, with the legacy members "@Lines" and "@Walls" (a one-element
\* list, an empty one, None, or a Base that is not in a list), and with both
\* elements and a legacy member
FlattenNodes(g) ==
    LET k == Len(g) + 1
        older == 1..Len(g)
    IN {BaseNode(k, PyNone, e, NoList, NoMembers) :
            e \in {NoList} \cup {ListOf(l) : l \in ListsOver(older)}}
       \cup {BaseNode(k, PyNone, NoList, NoList, LinesAndWalls(l, w)) :
                l \in {MemberAbsent} \cup {MemberList(<<c>>) : c \in older},
                w \in {MemberAbsent, MemberList(<<>>), MemberNone}
                      \cup {MemberList(<<c>>) : c \in older}
                      \cup {MemberBase(c) : c \in older \cap {Len(g)}}}
       \cup {BaseNode(k, PyNone, ListOf(<<c>>), NoList, Walls(MemberList(<<d>>))) :
                c \in older, d \in older}

\* extract_base_and_transform(root), and with a transform_list passed in
ExtractCalls(g) ==
    {[fn |-> "extract_base_and_transform", root |-> Len(g),
      inherited_instance_id |-> PyNone, transform_list |-> l, has_list |-> h] :
        l \in {<<>>}, h \in {FALSE}}
    \cup {[fn |-> "extract_base_and_transform", root |-> Len(g),
           inherited_instance_id |-> PyNone, transform_list |-> <<"T0">>, has_list |-> TRUE]}

\* extract_base_and_transform(root) and (root, "x0")
IdentityCalls(g) ==
    {[fn |-> "extract_base_and_transform", root |-> Len(g),
      inherited_instance_id |-> i, transform_list |-> <<>>, has_list |-> FALSE] :
        i \in {PyNone, "x0"}}

FlattenCall(g) ==
    [fn |-> "flatten_base", root |-> Len(g), inherited_instance_id |-> PyNone,
     transform_list |-> <<>>, has_list |-> FALSE]

InitGraph ==
    /\ graph = <<>>
    /\ call = NoCall
    /\ yielded = <<>>
    /\ raised = NoError
    /\ caller_list = <<>>
    /\ parent_type = <<>>
    /\ pc = "receive"
    /\ function_inputs = NoInputs
    /\ EvalIdle

\* main.py:123 the object graph arrives: one more node, over the nodes it
\* refers to
AddNode(n) ==
    /\ pc = "receive"
    /\ Len(graph) < MaxNodes
    /\ graph' = Append(graph, n)
    /\ UNCHANGED <<call, yielded, raised, caller_list, parent_type, pc>>
    /\ UNCHANGED <<function_inputs, context, current_object, remaining, contexts_left,
                   parameter, assessment, object_info, assessed_objects, attached,
                   run_status, stored_file>>

\* the generator extract_base_and_transform(root, ...) is run to its end
Extract(c) ==
    /\ pc = "receive"
    /\ graph # <<>>
    /\ call' = c
    /\ yielded' = extract_base_and_transform(graph, c.root, c.inherited_instance_id,
                                             c.transform_list)
    /\ raised' = NoError
    /\ caller_list' = caller_list_after(graph, c)
    /\ pc' = "called"
    /\ UNCHANGED <<graph, parent_type>>
    /\ UNCHANGED <<function_inputs, context, current_object, remaining, contexts_left,
                   parameter, assessment, object_info, assessed_objects, attached,
                   run_status, stored_file>>

\* the generator flatten_base(root) is run to its end, or to the exception
\* that ends it
Flatten ==
    /\ pc = "receive"
    /\ graph # <<>>
    /\ call' = FlattenCall(graph)
    /\ LET st == flatten_base(graph, Len(graph), PyNone,
                              [out |-> <<>>, err |-> NoError,
                               parent_type |-> [k \in 1..Len(graph) |-> Unset]])
       IN /\ yielded' = st.out
          /\ raised' = st.err
          /\ parent_type' = st.parent_type
    /\ pc' = "called"
    /\ UNCHANGED <<graph, caller_list>>
    /\ UNCHANGED <<function_inputs, context, current_object, remaining, contexts_left,
                   parameter, assessment, object_info, assessed_objects, attached,
                   run_status, stored_file>>

NextExtract ==
    \/ \E n \in ExtractNodes(graph) : AddNode(n)
    \/ \E c \in ExtractCalls(graph) : Extract(c)

SpecExtract == InitGraph /\ [][NextExtract]_vars

NextIdentity ==
    \/ \E n \in IdentityNodes(graph) : AddNode(n)
    \/ \E c \in IdentityCalls(graph) : Extract(c)

SpecIdentity == InitGraph /\ [][NextIdentity]_vars

NextFlatten ==
    \/ \E n \in FlattenNodes(graph) : AddNode(n)
    \/ Flatten

SpecFlatten == InitGraph /\ [][NextFlatten]_vars

-----------------------------------------------------------------------------
(* Claims about the classification (checked under SpecClassify) *)

\* the four outcomes; evaluate_parameter returns None for "skipped"
OutcomeName(a) == IF a = PyNone THEN "skipped" ELSE a

\* the outcome the priority order prescribes: the type tag first, then the
\* absent or falsy value, then the prefix
PrescribedOutcome(p, inputs) ==
    IF GetAttr(p.speckle_type, PyNone) # RevitParameterType THEN "skipped"
    ELSE IF \/ p.value.t \in {"absent", "none"}
            \/ p.value.t = "str" /\ p.value.s = <<>>
            \/ p.value.t = "num" /\ p.value.n = 0
         THEN "missing"
    ELSE IF p.value.t = "str" /\ startswith(p.value.s, inputs.single_rule) THEN "valid"
    ELSE "invalid"

\* C1: for every parameter and rule prefix the result of evaluate_parameter
\* is the one the priority order prescribes: skipped when the type tag is not
\* the parameter marker, else missing when the value is absent or falsy, else
\* valid when the value starts with the rule prefix, else invalid.
C1_PriorityOrder ==
    pc # "call" =>
        /\ pc = "returned"
        /\ OutcomeName(assessment) = PrescribedOutcome(parameter, function_inputs)

\* C2: every call of evaluate_parameter completes and returns one of the four
\* outcomes, whatever the parameter (recognized or not; value absent, empty,
\* a string or a number) and the rule.  (That a second call on the same
\* inputs returns the same outcome is true of any operator of its arguments.)
C2_TotalAndExclusive ==
    pc # "call" =>
        /\ pc = "returned"
        /\ OutcomeName(assessment) \in {"skipped", "missing", "valid", "invalid"}

-----------------------------------------------------------------------------
(* Claims about the aggregation (checked under SpecAutomate) *)

Buckets == DOMAIN EmptyBuckets

\* this step appended an entry to bucket b
Appended(b) == Len(assessed_objects'[b]) = Len(assessed_objects[b]) + 1

\* the bucket of an outcome: valid parameters go to the passing bucket
BucketOf(a) == IF a = "valid" THEN "passing" ELSE a

\* the summary of a container as the claim describes it
ContainerSummary(o) ==
    LET wrapper == o.speckle_type = RevitInstanceType /\ o.definition.present
        from == IF wrapper THEN o.definition ELSE o
    IN [name |-> IF o.name = ABSENT THEN "Unknown" ELSE o.name,
        type |-> IF from.type = ABSENT THEN "Unknown" ELSE from.type,
        family |-> IF from.family = ABSENT THEN "Unknown" ELSE from.family,
        id |-> IF o.id = ABSENT THEN "Unknown" ELSE o.id]

\* C3: an entry is appended to a bucket only for a container whose category
\* is single_category and for a parameter of it named single_property; other
\* containers and other parameters contribute nothing.
C3_OnlyMatchingContainers ==
    [][\A b \in Buckets :
          Appended(b) =>
              /\ context.object.category = function_inputs.single_category
              /\ parameter'.name = function_inputs.single_property]_vars

\* C4, the loop: a parameter evaluated as missing, invalid or valid has the
\* object's summary appended to the bucket of its outcome and the loop goes
\* on; a skipped parameter changes no bucket.
C4_Bucketed ==
    pc = "parameters" =>
        LET a == evaluate_parameter(parameter', function_inputs)
        IN /\ a \in {"missing", "invalid", "valid"} =>
                /\ pc' # "raised"
                /\ assessed_objects' =
                      [assessed_objects EXCEPT ![BucketOf(a)] = Append(@, object_info')]
           /\ a = PyNone => assessed_objects' = assessed_objects

\* C4, the routing: once the function is done, each bucket with an identified
\* object has produced exactly one message, an error for missing and invalid
\* and an information for passing, and no other message exists.
C4_Routed ==
    pc = "done" =>
        /\ \A b \in Buckets :
              (\E i \in 1..Len(assessed_objects[b]) : Identified(assessed_objects[b][i]))
              <=> (\E j \in 1..Len(attached) : attached[j].message.state = b)
        /\ \A j, k \in 1..Len(attached) :
              attached[j].message.state = attached[k].message.state => j = k
        /\ \A j \in 1..Len(attached) :
              attached[j].level =
                  IF attached[j].message.state \in {"missing", "invalid"} THEN "error" ELSE "info"

\* C4: every non-skipped outcome is bucketed and routed.
C4_BucketedAndRouted == [][C4_Bucketed]_vars /\ [](C4_Routed)

\* C5: the summary placed in a bucket is that of the container that owns the
\* parameter: its name and id, and the type and family of its definition when
\* it is an instance with a definition, of the container itself otherwise.
C5_SummaryOfContainer ==
    [][\A b \in Buckets :
          Appended(b) =>
              assessed_objects'[b][Len(assessed_objects'[b])] = ContainerSummary(context.object)]_vars

-----------------------------------------------------------------------------
(* Claims about extract_base_and_transform *)

Root == call.root

\* the node has an id of its own: the attribute is there and is not None
HasOwnId(node) == node.id # ABSENT /\ node.id # PyNone

\* In the graphs of SpecIdentity a node has at most one child (its definition
\* or its only element), so a node is reached by one path.
OnlyChild(node) ==
    IF node.instance THEN node.definition
    ELSE IF node.elements.present /\ node.elements.items # <<>> THEN node.elements.items[1]
    ELSE 0

\* the id of the nearest node with an id of its own on the path from node
\* from down to node to, to included; carried when there is none
RECURSIVE NearestId(_, _, _, _)
NearestId(g, from, to, carried) ==
    LET here == IF HasOwnId(g[from]) THEN g[from].id ELSE carried
    IN IF from = to \/ OnlyChild(g[from]) = 0 THEN here
       ELSE NearestId(g, OnlyChild(g[from]), to, here)

\* C6: every tuple yielded carries the node's own id when it has one, and
\* otherwise the id of the nearest ancestor on the path that has one (the
\* None when none has).  Stated of the calls extract(root), which pass no
\* inherited id.
C6_IdentityInheritance ==
    (pc = "called" /\ call.inherited_instance_id = PyNone) =>
        \A i \in 1..Len(yielded) :
            yielded[i].id = NearestId(graph, Root, yielded[i].node, call.inherited_instance_id)

\* the node at the end of the chain of Instances that starts at node n: 0
\* when an Instance of the chain has no definition
RECURSIVE ChainEnd(_, _)
ChainEnd(g, n) ==
    IF n = 0 THEN 0
    ELSE IF g[n].instance THEN ChainEnd(g, g[n].definition)
    ELSE n

\* the Instances of the chain that starts at n, outermost first
RECURSIVE ChainInstances(_, _)
ChainInstances(g, n) ==
    IF n = 0 \/ ~g[n].instance THEN <<>>
    ELSE <<n>> \o ChainInstances(g, g[n].definition)

\* the transforms of a sequence of Instances, in its order, those without
\* transform left out
RECURSIVE TransformsOf(_, _)
TransformsOf(g, instances) ==
    IF instances = <<>> THEN <<>>
    ELSE (IF g[Head(instances)].transform = PyNone THEN <<>>
          ELSE <<g[Head(instances)].transform>>)
         \o TransformsOf(g, Tail(instances))

Occurrences(n) == Cardinality({i \in 1..Len(yielded) : yielded[i].node = n})

\* C7: when the root starts a chain of n Instances that ends in a node D
\* which is no Instance, extract(root) yields one tuple for D, and its
\* transform sequence is the transforms of the chain, outermost first: of
\* length n when every Instance carries a transform, an Instance without
\* transform adding nothing.
C7_TransformChain ==
    (pc = "called" /\ call.transform_list = <<>> /\ graph[Root].instance
     /\ ChainEnd(graph, Root) # 0) =>
        LET D == ChainEnd(graph, Root)
            chain == ChainInstances(graph, Root)
        IN /\ Occurrences(D) = 1
           /\ yielded[1].node = D
           /\ yielded[1].transforms = TransformsOf(graph, chain)
           /\ (\A j \in 1..Len(chain) : graph[chain[j]].transform # PyNone)
                 => Len(yielded[1].transforms) = Len(chain)

\* C7's case: a chain of two Instances, each with a transform, was extracted
C7_Witness ==
    /\ pc = "called" /\ call.transform_list = <<>>
    /\ graph[Root].instance /\ graph[Root].transform # PyNone
    /\ graph[Root].definition # 0
    /\ graph[graph[Root].definition].instance
    /\ graph[graph[Root].definition].transform # PyNone
    /\ ChainEnd(graph, Root) # 0
    /\ Len(yielded[1].transforms) = 2

\* The nodes one step from node n, one entry per way of reaching them: the
\* definition of an Instance; of another node its elements, its "@elements"
\* (with legacy_always: also beside elements that are not empty; without:
\* only when elements is absent or empty), and every node under an
\* "@"-prefixed member that has an elements member.
StepsFrom(g, n, legacy_always) ==
    IF g[n].instance
    THEN IF g[n].definition # 0 THEN <<g[n].definition>> ELSE <<>>
    ELSE LET own == IF g[n].elements.present THEN g[n].elements.items ELSE <<>>
             legacy == IF g[n].at_elements.present /\ (legacy_always \/ own = <<>>)
                       THEN g[n].at_elements.items ELSE <<>>
             under(m) == IF g[n].members[m].kind = "base"
                            /\ g[g[n].members[m].items[1]].elements.present
                         THEN g[n].members[m].items ELSE <<>>
         IN own \o legacy \o under("@Lines") \o under("@Walls")

\* the number of distinct paths from node from to node to
RECURSIVE PathCount(_, _, _, _)
RECURSIVE PathCountVia(_, _, _, _)
PathCount(g, from, to, legacy_always) ==
    IF from = to THEN 1
    ELSE PathCountVia(g, StepsFrom(g, from, legacy_always), to, legacy_always)
PathCountVia(g, steps, to, legacy_always) ==
    IF steps = <<>> THEN 0
    ELSE PathCount(g, Head(steps), to, legacy_always)
         + PathCountVia(g, Tail(steps), to, legacy_always)

\* the transform chains of the paths from node from to node to, chain being
\* the transforms met before from
RECURSIVE PathChains(_, _, _, _, _)
PathChains(g, from, to, chain, legacy_always) ==
    LET here == IF g[from].instance /\ g[from].transform # PyNone
                THEN Append(chain, g[from].transform) ELSE chain
        steps == StepsFrom(g, from, legacy_always)
    IN IF from = to THEN {here}
       ELSE UNION {PathChains(g, steps[j], to, here, legacy_always) : j \in 1..Len(steps)}

\* a node that is no Instance is yielded once per path that reaches it, each
\* time with the transform chain of such a path; an Instance never is
YieldedOncePerPath(legacy_always) ==
    pc = "called" =>
        /\ \A n \in 1..Len(graph) :
              Occurrences(n) = IF graph[n].instance THEN 0
                               ELSE PathCount(graph, Root, n, legacy_always)
        /\ \A i \in 1..Len(yielded) :
              yielded[i].transforms
                  \in PathChains(graph, Root, yielded[i].node, call.transform_list,
                                 legacy_always)

-----------------------------------------------------------------------------
(* Claims about flatten_base *)

\* the nodes wrapped by the "@"-prefixed list members of node n, in the
\* order of the member names
RECURSIVE Wrapped(_, _, _)
Wrapped(g, n, k) ==
    IF k > Len(SigilNames) THEN <<>>
    ELSE (IF MemberValue(g[n], SigilNames[k]).kind = "list"
             /\ MemberValue(g[n], SigilNames[k]).items # <<>>
          THEN <<MemberValue(g[n], SigilNames[k]).items[1]>> ELSE <<>>)
         \o Wrapped(g, n, k + 1)

\* A container has elements that are not empty, or an "@"-prefixed member
\* that wraps a container (strict), or that wraps any node (not strict).
RECURSIVE IsContainer(_, _, _)
IsContainer(g, n, strict) ==
    \/ g[n].elements.present /\ g[n].elements.items # <<>>
    \/ \E j \in 1..Len(Wrapped(g, n, 1)) :
          ~strict \/ IsContainer(g, Wrapped(g, n, 1)[j], TRUE)

\* C9: every node flatten_base yields is structurally childless: it has no
\* elements that are not empty and no "@"-prefixed member, whatever its
\* name, that wraps a container node.
C9_LeafOnly ==
    pc = "called" =>
        \A i \in 1..Len(yielded) : ~IsContainer(graph, yielded[i], TRUE)

\* the childless nodes below node n, depth first: through its elements when
\* they are not empty, else through its "@"-prefixed members
RECURSIVE Leaves(_, _, _)
RECURSIVE LeavesOf(_, _, _)
Leaves(g, n, strict) ==
    IF ~IsContainer(g, n, strict) THEN <<n>>
    ELSE IF g[n].elements.present /\ g[n].elements.items # <<>>
    THEN LeavesOf(g, g[n].elements.items, strict)
    ELSE LeavesOf(g, Wrapped(g, n, 1), strict)
LeavesOf(g, nodes, strict) ==
    IF nodes = <<>> THEN <<>>
    ELSE Leaves(g, Head(nodes), strict) \o LeavesOf(g, Tail(nodes), strict)

\* C10: flatten_base(root) yields exactly the structurally childless nodes
\* reachable from the root through elements and "@"-prefixed members, once
\* each, depth first in the order of elements.  Stated of the runs that end
\* without exception, and granted under either reading of "childless" (no
\* member wrapping a container, or no member wrapping a node at all).
C10_ExactlyTheLeaves ==
    (pc = "called" /\ raised = NoError) =>
        /\ \/ yielded = Leaves(graph, Root, TRUE)
           \/ yielded = Leaves(graph, Root, FALSE)
        /\ \A i, j \in 1..Len(yielded) : yielded[i] = yielded[j] => i = j

\* flatten_base as it would run if a malformed "@"-prefixed member (None, an
\* empty list, a Base that is not in a list) were skipped and nothing else
\* changed: the nodes yielded, in order
RECURSIVE TolerantFlatten(_, _)
RECURSIVE TolerantElements(_, _)
RECURSIVE TolerantCategories(_, _, _)
TolerantFlatten(g, n) ==
    IF g[n].elements.present /\ g[n].elements.items # <<>>
    THEN TolerantElements(g, g[n].elements.items)
    ELSE IF MemberValue(g[n], "@Lines").kind # "absent"
    THEN TolerantCategories(g, n, 1)
    ELSE <<n>>
TolerantElements(g, nodes) ==
    IF nodes = <<>> THEN <<>>
    ELSE TolerantFlatten(g, Head(nodes)) \o TolerantElements(g, Tail(nodes))
TolerantCategories(g, n, k) ==
    IF k > Len(SigilNames) THEN <<>>
    ELSE (IF MemberValue(g[n], SigilNames[k]).kind = "list"
             /\ MemberValue(g[n], SigilNames[k]).items # <<>>
          THEN TolerantFlatten(g, MemberValue(g[n], SigilNames[k]).items[1])
          ELSE <<>>)
         \o TolerantCategories(g, n, k + 1)

\* C11: a malformed "@"-prefixed member (absent, empty, not a one-element
\* list) is skipped and nothing else: flatten_base ends without exception
\* and has yielded what lies under the well-formed members and under the
\* later siblings.
C11_MalformedTolerated ==
    pc = "called" =>
        /\ raised = NoError
        /\ yielded = TolerantFlatten(graph, Root)

-----------------------------------------------------------------------------
(* Claims about the rule predicates (checked under SpecRules) *)

\* the attribute the predicate fn inspects is missing or None on node p
InspectedMissing(fn, p) ==
    CASE fn \in {"speckle_type_rule", "is_revit_parameter"} ->
            p.speckle_type \in {ABSENT, PyNone}
      [] fn \in {"forbidden_prefix_rule", "parameter_value_startswith",
                 "parameter_name_is"} -> p.name.t \in {"absent", "none"}
      [] fn \in {"has_missing_value", "has_default_value"} ->
            p.value.t \in {"absent", "none"}
      [] fn = "is_category" -> p.category \in {ABSENT, PyNone}
      [] fn = "parameter_exists" -> p.parameters.t \in {"absent", "none"}

\* C12: a rule predicate applied to a node whose inspected attribute (name,
\* value, category, type tag, parameters) is missing or None does not raise:
\* it returns a boolean; and has_missing_value returns True when the value is
\* absent.
C12_AbsentNeverRaises ==
    (pc # "call" /\ InspectedMissing(call.fn, parameter)) =>
        /\ pc = "returned"
        /\ assessment \in {"True", "False"}
        /\ call.fn = "has_missing_value" => assessment = "True"

-----------------------------------------------------------------------------
(* Claims about the lists of extract_base_and_transform (SpecExtract) *)

\* C13: the transform_list the caller passes to extract_base_and_transform
\* is not modified by the call, also when the root is an Instance with a
\* transform and the list passed is not empty: after the call the caller's
\* list holds what it held before.  (The lists handed to definitions,
\* elements and members are copies, so what is yielded with a node is the
\* chain of its own path, which C7_TransformChain and C8_OncePerPathAmended
\* state.)
C13_CallerListUnchanged ==
    (pc = "called" /\ call.fn = "extract_base_and_transform" /\ call.has_list) =>
        caller_list = call.transform_list

=============================================================================
